---- MODULE Spec2Model ----
(***************************************************************************)
(* Model of networkcommons: get_subnetwork (utils.py) and the              *)
(* NetworkXVisualizer (_visual/vis_networkx.py).                           *)
(*                                                                         *)
(* A graph is a record                                                     *)
(*   directed : BOOLEAN                                                    *)
(*   nodes    : sequence of node names, in insertion order                 *)
(*   node     : node name -> attribute mapping                             *)
(*   adj      : <<u, v>> -> attribute mapping of the edge; an undirected   *)
(*              graph holds the same mapping under <<u, v>> and <<v, u>>   *)
(* An attribute mapping is a function from a finite set of keys.           *)
(***************************************************************************)
EXTENDS Integers, Sequences, FiniteSets, TLC

VARIABLES
  network,       \* the graph the caller holds and passes to the operations
  original,      \* the caller's graph as it was at the start (never written)
  paths,         \* the paths passed to get_subnetwork
  subnetwork,    \* the outcome of get_subnetwork
  self_network,  \* NetworkXVisualizer.network
  color_by,      \* NetworkXVisualizer.color_by
  colored,       \* the outcome of the last color_nodes and color_edges
  source_dict,   \* the source role map
  target_dict,   \* the target role map, one level nested
  calls          \* the outcomes of the visualize_network calls, in order

vars == <<network, original, paths, subnetwork, self_network, color_by, colored,
          source_dict, target_dict, calls>>

----------------------------------------------------------------------------
(* Attribute mappings (python dict)                                        *)

EmptyAttrs == [k \in {} |-> 0]

\* dict.update(other)
dict_update(d, other) ==
  [k \in (DOMAIN d) \cup (DOMAIN other) |->
     IF k \in DOMAIN other THEN other[k] ELSE d[k]]

\* d[key] = value
dict_set(d, key, value) ==
  [k \in (DOMAIN d) \cup {key} |-> IF k = key THEN value ELSE d[k]]

\* d.pop(key): the mapping without key
dict_without(d, key) == [k \in (DOMAIN d) \ {key} |-> d[k]]

----------------------------------------------------------------------------
(* Graphs (networkx Graph / DiGraph as the code uses them)                 *)

Nodes == {"A", "B", "C"}

NodeOrder == <<"A", "B", "C">>

Range(s) == {s[i] : i \in 1..Len(s)}

\* nx.DiGraph() if directed else nx.Graph()
new_graph(directed) ==
  [directed |-> directed, nodes |-> <<>>,
   node |-> [n \in {} |-> EmptyAttrs], adj |-> [e \in {} |-> EmptyAttrs]]

add_node(g, n) ==
  IF n \in Range(g.nodes) THEN g
  ELSE [g EXCEPT !.nodes = Append(@, n),
                 !.node = [m \in (DOMAIN @) \cup {n} |->
                             IF m = n THEN EmptyAttrs ELSE @[m]]]

\* the edge keys under which g stores the edge u-v
edge_keys(g, u, v) == IF g.directed THEN {<<u, v>>} ELSE {<<u, v>>, <<v, u>>}

\* network.get_edge_data(u, v): None when there is no such edge
get_edge_data(g, u, v) ==
  IF <<u, v>> \in DOMAIN g.adj
    THEN [is_none |-> FALSE, data |-> g.adj[<<u, v>>]]
    ELSE [is_none |-> TRUE, data |-> EmptyAttrs]

\* the mutant of add_edge that replaces the attributes with an empty mapping
add_edge_no_attrs(g, u, v, attr) ==
  LET g2 == add_node(add_node(g, u), v)
  IN [g2 EXCEPT !.adj = [e \in (DOMAIN @) \cup edge_keys(g, u, v) |->
                           IF e \in edge_keys(g, u, v) THEN EmptyAttrs ELSE @[e]]]

\* subnetwork.add_edge(u, v, **attr): adds the nodes that are new, u first,
\* and updates the attribute mapping of the edge with attr
add_edge(g, u, v, attr) ==
  LET g2 == add_node(add_node(g, u), v)
      old == IF <<u, v>> \in DOMAIN g.adj THEN g.adj[<<u, v>>] ELSE EmptyAttrs
      new == dict_update(old, attr)
  IN [g2 EXCEPT !.adj = [e \in (DOMAIN @) \cup edge_keys(g, u, v) |->
                           IF e \in edge_keys(g, u, v) THEN new ELSE @[e]]]

----------------------------------------------------------------------------
(* utils.get_subnetwork                                                    *)

\* the outcome of a call: the exception raised ("none" when it returns),
\* whether a value was returned, and the value
Returned(v) == [raised |-> "none", returned |-> TRUE, value |-> v, at |-> <<0, 0>>]

\* exc raised at step i of path p: nothing is returned
Raised(exc, p, i) ==
  [raised |-> exc, returned |-> FALSE, value |-> new_graph(TRUE), at |-> <<p, i>>]

\* `subnetwork.add_edge(u, v, **None)` raises TypeError
MissingEdgeError == "TypeError"

\* range(len(path) - 1), one-based
path_steps(path) == 1 .. (Len(path) - 1)

\* the mutant of the inner step that skips a pair with no parent edge
RECURSIVE subnetwork_loop_skip(_, _, _, _, _)
subnetwork_loop_skip(parent, ps, p, i, sub) ==
  IF p > Len(ps) THEN Returned(sub)
  ELSE IF i \notin path_steps(ps[p]) THEN subnetwork_loop_skip(parent, ps, p + 1, 1, sub)
  ELSE LET edge_data == get_edge_data(parent, ps[p][i], ps[p][i + 1])
       IN IF edge_data.is_none
            THEN subnetwork_loop_skip(parent, ps, p, i + 1, sub)
            ELSE subnetwork_loop_skip(parent, ps, p, i + 1,
                       add_edge(sub, ps[p][i], ps[p][i + 1], edge_data.data))

\* for path in paths: for i in range(len(path) - 1): ...
RECURSIVE subnetwork_loop(_, _, _, _, _)
subnetwork_loop(parent, ps, p, i, sub) ==
  IF p > Len(ps) THEN Returned(sub)
  ELSE IF i \notin path_steps(ps[p]) THEN subnetwork_loop(parent, ps, p + 1, 1, sub)
  ELSE LET edge_data == get_edge_data(parent, ps[p][i], ps[p][i + 1])
       IN IF edge_data.is_none
            THEN Raised(MissingEdgeError, p, i)
            ELSE subnetwork_loop(parent, ps, p, i + 1,
                       add_edge(sub, ps[p][i], ps[p][i + 1], edge_data.data))

\* the mutant of get_subnetwork that always builds a DiGraph
get_subnetwork_digraph(parent, ps) ==
  subnetwork_loop(parent, ps, 1, 1, new_graph(TRUE))

get_subnetwork(parent, ps) ==
  subnetwork_loop(parent, ps, 1, 1, new_graph(parent.directed))

----------------------------------------------------------------------------
(* Inputs of get_subnetwork                                                *)

\* total number of node occurrences in the input paths
MaxPathNodes == 4

SubPairs == {<<"A", "B">>, <<"B", "C">>, <<"C", "A">>, <<"C", "C">>}

SubEdgeAttrs == {EmptyAttrs, [sign |-> -1, weight |-> 2]}

\* an input graph with the nodes ns (in that order) and the edges ps
make_graph(directed, ns, ps, attrs) ==
  LET keys == IF directed THEN ps ELSE ps \cup {<<e[2], e[1]>> : e \in ps}
  IN [directed |-> directed, nodes |-> ns,
      node |-> [n \in Range(ns) |-> EmptyAttrs],
      adj |-> [e \in keys |-> IF e \in ps THEN attrs[e] ELSE attrs[<<e[2], e[1]>>]]]

\* the parent graphs: every node, any of the pairs as edges
ParentGraphs ==
  {make_graph(x[1], NodeOrder, x[2], x[3]) :
     x \in {y \in BOOLEAN \X (SUBSET SubPairs) \X [SubPairs -> SubEdgeAttrs] :
              \A e \in SubPairs \ y[2] : y[3][e] = EmptyAttrs}}

PathsOfLen(n) == [1..n -> Nodes]

\* the lists of non-empty paths with at most n node occurrences in all
RECURSIVE PathLists(_)
PathLists(n) ==
  IF n = 0 THEN {<<>>}
  ELSE {<<>>} \cup
       UNION {{<<p>> \o rest : p \in PathsOfLen(k), rest \in PathLists(n - k)} :
                k \in 1..n}

NoPaths == <<>>

NotCalled ==
  [raised |-> "not called", returned |-> FALSE, value |-> new_graph(TRUE), at |-> <<0, 0>>]

NotColored == [color_nodes |-> "not called", color_edges |-> "not called"]

InitSub ==
  /\ network \in ParentGraphs
  /\ original = network
  /\ paths = NoPaths
  /\ subnetwork = NotCalled
  /\ self_network = new_graph(TRUE)
  /\ color_by = "effect"
  /\ colored = NotColored
  /\ source_dict = EmptyAttrs
  /\ target_dict = [g \in {"grp"} |-> EmptyAttrs]
  /\ calls = <<>>

GetSubnetwork ==
  /\ subnetwork = NotCalled
  /\ \E ps \in PathLists(MaxPathNodes) :
       /\ paths' = ps
       /\ subnetwork' = get_subnetwork(network, ps)
  /\ UNCHANGED <<network, original, self_network, color_by, colored,
                 source_dict, target_dict, calls>>

NextSub == GetSubnetwork

SpecSub == InitSub /\ [][NextSub]_vars

----------------------------------------------------------------------------
(* _visual/styles.py: the style presets, their merge, and the applier      *)

\* get_styles(): the presets 'default' and 'sign_consistent'
get_styles ==
  [default |->
     [nodes |->
        [sources |-> [shape |-> "circle", fillcolor |-> "blue"],
         targets |-> [shape |-> "box", fillcolor |-> "orange"],
         other   |-> [shape |-> "oval", fillcolor |-> "gray"],
         default |-> [default |-> "lightgray", sources |-> "blue",
                      targets |-> "orange"]],
      edges |->
        [positive |-> [color |-> "green", penwidth |-> 2],
         negative |-> [color |-> "red", penwidth |-> 2],
         neutral  |-> [color |-> "gray", penwidth |-> 1],
         default  |-> [color |-> "black", penwidth |-> 1]]],
   sign_consistent |->
     [nodes |->
        [sources |-> [shape |-> "circle", fillcolor |-> "blue",
                      positive_consistent |-> [color |-> "forestgreen", penwidth |-> 3],
                      negative_consistent |-> [color |-> "tomato", penwidth |-> 3]],
         targets |-> [shape |-> "box", fillcolor |-> "orange",
                      positive_consistent |-> [color |-> "darkgreen", penwidth |-> 2],
                      negative_consistent |-> [color |-> "darkred", penwidth |-> 2]],
         other   |-> [shape |-> "oval", fillcolor |-> "gray"]],
      edges |->
        [positive |-> [color |-> "forestgreen", penwidth |-> 1],
         negative |-> [color |-> "tomato", penwidth |-> 1],
         neutral  |-> [color |-> "gray30", penwidth |-> 1]]]]

\* custom_style=None
NoStyle == [none |-> TRUE]

\* merge_styles(base, override): base when there is no override, else the
\* deep union in which the override's values win
merge_styles(base, override) ==
  IF override = NoStyle THEN base
  ELSE [part \in (DOMAIN base) \cup (DOMAIN override) |->
          IF part \notin DOMAIN override THEN base[part]
          ELSE IF part \notin DOMAIN base THEN override[part]
          ELSE [kind \in (DOMAIN base[part]) \cup (DOMAIN override[part]) |->
                  IF kind \notin DOMAIN override[part] THEN base[part][kind]
                  ELSE IF kind \notin DOMAIN base[part] THEN override[part][kind]
                  ELSE dict_update(base[part][kind], override[part][kind])]]

\* set_style_attributes(item, base_style, condition_style): writes every key
\* of base_style, then every key of condition_style, onto the item
set_style_attributes(item_attr, base_style, condition_style) ==
  dict_update(dict_update(item_attr, base_style), condition_style)

----------------------------------------------------------------------------
(* NetworkXVisualizer                                                      *)

\* the edges in the order A.edges() yields them: by tail node, then head node
RECURSIVE edges_from(_, _, _)
edges_from(g, i, j) ==
  IF i > Len(g.nodes) THEN <<>>
  ELSE IF j > Len(g.nodes) THEN edges_from(g, i + 1, 1)
  ELSE (IF <<g.nodes[i], g.nodes[j]>> \in DOMAIN g.adj /\ (g.directed \/ i <= j)
          THEN <<(<<g.nodes[i], g.nodes[j]>>)>> ELSE <<>>)
       \o edges_from(g, i, j + 1)

\* nx.nx_agraph.to_agraph(network): the nodes and edges of the network; only
\* the attributes the styles write are kept track of, each unset at first
to_agraph(g) ==
  [nodes |-> g.nodes,
   edges |-> edges_from(g, 1, 1),
   node |-> [n \in Range(g.nodes) |-> EmptyAttrs],
   edge |-> [e \in Range(edges_from(g, 1, 1)) |-> EmptyAttrs]]

NoAGraph == [nodes |-> <<>>, edges |-> <<>>,
             node |-> [n \in {} |-> EmptyAttrs], edge |-> [e \in {} |-> EmptyAttrs]]

\* {sub_key: sub_value for key, value in target_dict.items()
\*                     for sub_key, sub_value in value.items()}
RECURSIVE flatten(_, _)
flatten(td, groups) ==
  IF groups = <<>> THEN EmptyAttrs
  ELSE dict_update(flatten(td, SubSeq(groups, 1, Len(groups) - 1)),
                   td[groups[Len(groups)]])

GroupOrder == <<"grp">>

target_dict_flat(td) == flatten(td, GroupOrder)

\* if n in sources / elif n in targets / else
node_role(n, sd, td) ==
  IF n \in DOMAIN sd THEN "sources"
  ELSE IF n \in DOMAIN target_dict_flat(td) THEN "targets"
  ELSE "other"

\* __init__: self.network = network.copy()
NetworkXVisualizer(g) == g

\* visualize_network_default: every node gets the base style of its role,
\* every edge the neutral style
visualize_network_default(g, sd, td, custom_style) ==
  LET style == merge_styles(get_styles.default, custom_style)
      A == to_agraph(g)
  IN [A EXCEPT
        !.node = [n \in DOMAIN @ |->
                    set_style_attributes(@[n], style.nodes[node_role(n, sd, td)],
                                         EmptyAttrs)],
        !.edge = [e \in DOMAIN @ |->
                    set_style_attributes(@[e], style.edges.neutral, EmptyAttrs)]]

\* the outcome of a visualize_network call: the exception raised, whether an
\* AGraph was returned, the AGraph, and the caller's graph after the call
VisReturned(A, g) == [raised |-> "none", returned |-> TRUE, value |-> A, network |-> g]

VisRaised(exc, g) == [raised |-> exc, returned |-> FALSE, value |-> NoAGraph, network |-> g]

\* style['nodes'][nodes_type] with nodes_type never assigned
UnboundLocalError == "UnboundLocalError"

\* edge_data['sign'] with no 'sign' key
MissingAttributeError == "KeyError"

\* lines 138-154: the node loop; nodes_type is "unbound" until a source or a
\* target has been seen and keeps its value from one node to the next
RECURSIVE sign_nodes_loop(_, _, _, _, _, _)
sign_nodes_loop(A, i, nodes_type, sd, td, style) ==
  IF i > Len(A.nodes) THEN [raised |-> "none", value |-> A]
  ELSE
    LET n == A.nodes[i]
        flat == target_dict_flat(td)
        sign_value == IF n \in DOMAIN flat THEN flat[n] ELSE 1
        nt == IF n \in DOMAIN sd THEN "sources"
              ELSE IF n \in DOMAIN flat THEN "targets"
              ELSE nodes_type
        key == IF sign_value > 0 THEN "positive_consistent" ELSE "negative_consistent"
    IN IF sign_value = 0 THEN sign_nodes_loop(A, i + 1, nt, sd, td, style)
       ELSE IF nt = "unbound" THEN [raised |-> UnboundLocalError, value |-> NoAGraph]
       ELSE IF key \notin DOMAIN style.nodes[nt]
              \/ style.nodes[nt][key] = EmptyAttrs
         THEN sign_nodes_loop(A, i + 1, nt, sd, td, style)
       ELSE sign_nodes_loop(
              [A EXCEPT !.node[n] =
                 set_style_attributes(@, EmptyAttrs, style.nodes[nt][key])],
              i + 1, nt, sd, td, style)

\* the mutant of the rename that pops 'interaction' without writing 'sign'
rename_interaction_dropped(edge_data) ==
  IF "interaction" \in DOMAIN edge_data
    THEN dict_without(edge_data, "interaction")
    ELSE edge_data

\* lines 159-160: edge_data['sign'] = edge_data.pop('interaction')
rename_interaction(edge_data) ==
  IF "interaction" \in DOMAIN edge_data
    THEN dict_set(dict_without(edge_data, "interaction"), "sign",
                  edge_data["interaction"])
    ELSE edge_data

\* the mutant of the sign test that takes every sign below 1 as negative
edge_style_key_below(sign) ==
  IF sign = 1 THEN "positive" ELSE IF sign < 1 THEN "negative" ELSE "neutral"

\* lines 162-167
edge_style_key(sign) ==
  IF sign = 1 THEN "positive" ELSE IF sign = -1 THEN "negative" ELSE "neutral"

\* edge_data is the graph's own mapping: a write to it is a write to the graph
set_edge_data(g, u, v, data) ==
  [g EXCEPT !.adj = [e \in DOMAIN @ |->
                       IF e \in edge_keys(g, u, v) THEN data ELSE @[e]]]

\* lines 156-169: the edge loop, on the network the caller passed
RECURSIVE sign_edges_loop(_, _, _, _)
sign_edges_loop(A, i, g, style) ==
  IF i > Len(A.edges) THEN VisReturned(A, g)
  ELSE
    LET u == A.edges[i][1]
        v == A.edges[i][2]
        edge_data == rename_interaction(get_edge_data(g, u, v).data)
        g2 == set_edge_data(g, u, v, edge_data)
    IN IF "sign" \notin DOMAIN edge_data THEN VisRaised(MissingAttributeError, g2)
       ELSE sign_edges_loop(
              [A EXCEPT !.edge[<<u, v>>] =
                 set_style_attributes(@, style.edges[edge_style_key(edge_data["sign"])],
                                      EmptyAttrs)],
              i + 1, g2, style)

visualize_network_sign_consistent(g, sd, td, custom_style) ==
  LET style == merge_styles(get_styles.sign_consistent, custom_style)
      A == visualize_network_default(g, sd, td, style)
      styled == sign_nodes_loop(A, 1, "unbound", sd, td, style)
  IN IF styled.raised # "none" THEN VisRaised(styled.raised, g)
     ELSE sign_edges_loop(styled.value, 1, g, style)

visualize_network(g, sd, td, network_type, custom_style) ==
  IF network_type = "sign_consistent"
    THEN visualize_network_sign_consistent(g, sd, td, custom_style)
    ELSE VisReturned(visualize_network_default(g, sd, td, custom_style), g)

----------------------------------------------------------------------------
(* NetworkXVisualizer.color_nodes and color_edges, on self.network         *)

node_color(attrs) ==
  LET default_node_colors == get_styles.default.nodes.default
  IN IF "type" \in DOMAIN attrs /\ attrs["type"] = "target"
       THEN [color |-> default_node_colors.targets]
     ELSE IF "type" \in DOMAIN attrs /\ attrs["type"] = "source"
       THEN [color |-> default_node_colors.sources]
     ELSE [color |-> default_node_colors]

color_nodes(g) ==
  [g EXCEPT !.node = [n \in DOMAIN @ |-> dict_update(@[n], node_color(@[n]))]]

\* lines 59-66 for the edges es[i..]: KeyError when the color-by value is not
\* a key of the table; the colors written before it stay
RECURSIVE color_edges_loop(_, _, _, _)
color_edges_loop(g, es, i, cb) ==
  IF i > Len(es) THEN [raised |-> "none", network |-> g]
  ELSE
    LET edge_colors == get_styles.default.edges
        u == es[i][1]
        v == es[i][2]
        edge_data == get_edge_data(g, u, v).data
    IN IF cb \in DOMAIN edge_data /\ edge_data[cb] \notin DOMAIN edge_colors
         THEN [raised |-> "KeyError", network |-> g]
       ELSE
         LET color == IF cb \in DOMAIN edge_data
                        THEN edge_colors[edge_data[cb]]
                        ELSE edge_colors["default"]
         IN color_edges_loop(
              set_edge_data(g, u, v, dict_set(edge_data, "color", color)),
              es, i + 1, cb)

color_edges(g, cb) == color_edges_loop(g, edges_from(g, 1, 1), 1, cb)

----------------------------------------------------------------------------
(* Visualization: inputs, initial states, operations                       *)

\* the number of visualize_network calls in a run
MaxCalls == 2

VisPairs == {<<"A", "B">>, <<"B", "C">>}

VisEdgeAttrs ==
  {EmptyAttrs, [interaction |-> 1], [interaction |-> -1], [sign |-> 1],
   [sign |-> 0], [interaction |-> -1, sign |-> 1]}

VisGraphs ==
  {make_graph(TRUE, NodeOrder, x[1], x[2]) :
     x \in {y \in (SUBSET VisPairs) \X [VisPairs -> VisEdgeAttrs] :
              \A e \in VisPairs \ y[1] : y[2][e] = EmptyAttrs}}

RoleValues == {-1, 0, 1}

\* the role maps over the nodes ns
RoleMaps(ns) == UNION {[d -> RoleValues] : d \in SUBSET ns}

SourceDicts == RoleMaps({"A", "B"})

TargetDicts == {[g \in {"grp"} |-> m] : m \in RoleMaps({"B", "C"})}

NetworkTypes == {"default", "sign_consistent"}

InitVis ==
  /\ network \in VisGraphs
  /\ original = network
  /\ paths = NoPaths
  /\ subnetwork = NotCalled
  /\ self_network = NetworkXVisualizer(network)
  /\ color_by = "effect"
  /\ colored = NotColored
  /\ source_dict \in SourceDicts
  /\ target_dict \in TargetDicts
  /\ calls = <<>>

\* visualizer.visualize_network(network, source_dict, target_dict,
\*                              network_type=t)
VisualizeNetwork ==
  /\ Len(calls) < MaxCalls
  /\ \E t \in NetworkTypes :
       LET r == visualize_network(network, source_dict, target_dict, t, NoStyle)
       IN /\ network' = r.network
          /\ calls' = Append(calls, [network_type |-> t, raised |-> r.raised,
                                     returned |-> r.returned, value |-> r.value])
  /\ UNCHANGED <<original, paths, subnetwork, self_network, color_by, colored,
                 source_dict, target_dict>>

NextVis == VisualizeNetwork

SpecVis == InitVis /\ [][NextVis]_vars

----------------------------------------------------------------------------
(* Colorizer: inputs and initial states                                    *)

ColorPairs == {<<"A", "B">>, <<"B", "C">>, <<"C", "A">>}

ColorEdgeAttrs ==
  {EmptyAttrs, [effect |-> "positive"], [effect |-> "negative"],
   [effect |-> "unknown"], [kind |-> "neutral"]}

NodeTypeAttrs == {EmptyAttrs, [type |-> "source"], [type |-> "target"]}

ColorGraphs ==
  {[make_graph(x[1], NodeOrder, x[2], x[3]) EXCEPT !.node = x[4]] :
     x \in {y \in BOOLEAN \X (SUBSET ColorPairs) \X [ColorPairs -> ColorEdgeAttrs]
                   \X [Nodes -> NodeTypeAttrs] :
              \A e \in ColorPairs \ y[2] : y[3][e] = EmptyAttrs}}

InitColor ==
  /\ network \in ColorGraphs
  /\ original = network
  /\ paths = NoPaths
  /\ subnetwork = NotCalled
  /\ self_network = NetworkXVisualizer(network)
  /\ color_by \in {"effect", "kind"}
  /\ colored = NotColored
  /\ source_dict = EmptyAttrs
  /\ target_dict = [g \in {"grp"} |-> EmptyAttrs]
  /\ calls = <<>>

\* visualizer.color_nodes()
ColorNodes ==
  /\ self_network' = color_nodes(self_network)
  /\ colored' = [colored EXCEPT !.color_nodes = "none"]
  /\ UNCHANGED <<network, original, paths, subnetwork, color_by,
                 source_dict, target_dict, calls>>

\* visualizer.color_edges()
ColorEdges ==
  /\ LET r == color_edges(self_network, color_by)
     IN /\ self_network' = r.network
        /\ colored' = [colored EXCEPT !.color_edges = r.raised]
  /\ UNCHANGED <<network, original, paths, subnetwork, color_by,
                 source_dict, target_dict, calls>>

NextColor == ColorNodes \/ ColorEdges

SpecColor == InitColor /\ [][NextColor]_vars

----------------------------------------------------------------------------
(* Properties of get_subnetwork                                            *)

Called == subnetwork # NotCalled

\* the positions <<p, i>> of the consecutive pairs of the input paths
Steps ==
  UNION {{<<p, i>> : i \in 1 .. (Len(paths[p]) - 1)} : p \in 1 .. Len(paths)}

Pair(s) == <<paths[s[1]][s[2]], paths[s[1]][s[2] + 1]>>

IsParentEdge(e) == e \in DOMAIN network.adj

\* s comes before t in the order the loops visit the pairs
Before(s, t) == s[1] < t[1] \/ (s[1] = t[1] /\ s[2] < t[2])

\* the edge keys the visited pairs occupy in a graph of the parent's kind
VisitedKeys ==
  {Pair(s) : s \in Steps} \cup
  (IF network.directed THEN {} ELSE {<<Pair(s)[2], Pair(s)[1]>> : s \in Steps})

\* every node that occurs in an input path
PathNodes == UNION {Range(paths[p]) : p \in 1 .. Len(paths)}

\* the nodes that are an end of a visited pair
VisitedNodes == {Pair(s)[1] : s \in Steps} \cup {Pair(s)[2] : s \in Steps}

NoDuplicates(seq) == \A i, j \in 1 .. Len(seq) : seq[i] = seq[j] => i = j

\* C1: when every consecutive pair of every path is an edge of the parent,
\* get_subnetwork returns a graph that has every such pair as an edge, with
\* the attribute mapping the parent has for that edge.
C1_EdgeFidelity ==
  (Called /\ \A s \in Steps : IsParentEdge(Pair(s)))
    => /\ subnetwork.returned
       /\ \A s \in Steps :
            /\ Pair(s) \in DOMAIN subnetwork.value.adj
            /\ subnetwork.value.adj[Pair(s)] = network.adj[Pair(s)]

C1_Witness ==
  /\ subnetwork.returned
  /\ Cardinality(Steps) >= 2
  /\ \E s, t \in Steps :
       /\ network.adj[Pair(s)] # EmptyAttrs
       /\ network.adj[Pair(t)] = EmptyAttrs
       /\ Pair(t) \in DOMAIN subnetwork.value.adj

\* C2 as stated: the result has the parent's directedness, its edges are
\* exactly the visited pairs, each once, and its nodes are exactly the nodes
\* that occur in the input paths, the node of a one-node path included.
C2_Original ==
  subnetwork.returned
    => /\ subnetwork.value.directed = network.directed
       /\ DOMAIN subnetwork.value.adj = VisitedKeys
       /\ NoDuplicates(subnetwork.value.nodes)
       /\ Range(subnetwork.value.nodes) = PathNodes

\* C2 as amended: the result has the parent's directedness, its edges are
\* exactly the visited pairs, each once, and its nodes are exactly the ends
\* of the visited pairs; the node of a one-node path is in the result only
\* when some visited pair has it as an end.
C2_ExactlyVisited ==
  subnetwork.returned
    => /\ subnetwork.value.directed = network.directed
       /\ DOMAIN subnetwork.value.adj = VisitedKeys
       /\ NoDuplicates(subnetwork.value.nodes)
       /\ Range(subnetwork.value.nodes) = VisitedNodes
       /\ DOMAIN subnetwork.value.node = VisitedNodes

C2_Witness ==
  /\ subnetwork.returned
  /\ ~network.directed
  /\ DOMAIN subnetwork.value.adj # {}
  /\ \E p \in 1 .. Len(paths) :
       Len(paths[p]) = 1 /\ paths[p][1] \notin Range(subnetwork.value.nodes)

\* C3: when some consecutive pair of some path is not an edge of the parent,
\* get_subnetwork raises at the first such pair and returns nothing, wherever
\* the pair is and however many edges were added before it.
C3_MissingEdge ==
  (Called /\ \E s \in Steps : ~IsParentEdge(Pair(s)))
    => /\ subnetwork.raised = MissingEdgeError
       /\ ~subnetwork.returned
       /\ subnetwork.at \in Steps
       /\ ~IsParentEdge(Pair(subnetwork.at))
       /\ \A s \in Steps : Before(s, subnetwork.at) => IsParentEdge(Pair(s))

C3_Witness ==
  /\ subnetwork.raised = MissingEdgeError
  /\ subnetwork.at = <<2, 1>>
  /\ Len(paths[1]) >= 2

----------------------------------------------------------------------------
(* Properties of the sign-consistent rendering                             *)

SignConsistentCalls ==
  {k \in 1 .. Len(calls) : calls[k].network_type = "sign_consistent"}

SignConsistentReturned == {k \in SignConsistentCalls : calls[k].returned}

TargetFlat == target_dict_flat(target_dict)

\* the role the spec gives a node: source, else target, else other
RoleOf(n) ==
  IF n \in DOMAIN source_dict THEN "sources"
  ELSE IF n \in DOMAIN TargetFlat THEN "targets"
  ELSE "other"

\* the role-map value of a source or target node
RoleValue(n) == IF n \in DOMAIN source_dict THEN source_dict[n] ELSE TargetFlat[n]

SignStyle == get_styles.sign_consistent

\* the attributes of a node that has the base style of a role and nothing else
BaseOnly(role) ==
  set_style_attributes(EmptyAttrs,
                       merge_styles(get_styles.default, SignStyle).nodes[role],
                       EmptyAttrs)

\* the attributes of a node of a role whose role-map value is v
StyledBySign(role, v) ==
  IF v > 0 THEN dict_update(BaseOnly(role), SignStyle.nodes[role].positive_consistent)
  ELSE IF v < 0 THEN dict_update(BaseOnly(role), SignStyle.nodes[role].negative_consistent)
  ELSE BaseOnly(role)

\* C4 as stated: after a sign_consistent call every source and every target
\* node carries the sub-style chosen by the sign of its own role-map value:
\* positive_consistent above 0, negative_consistent below 0, none at 0.
C4_Original ==
  \A k \in SignConsistentReturned :
    \A n \in Range(original.nodes) :
      RoleOf(n) # "other"
        => calls[k].value.node[n] = StyledBySign(RoleOf(n), RoleValue(n))

\* C5 as stated: a node in neither role map raises no error and ends with the
\* base style of 'other' only, wherever it comes in the node order.
C5_Original ==
  \A k \in SignConsistentCalls :
    \A n \in Range(original.nodes) :
      RoleOf(n) = "other"
        => /\ calls[k].raised # UnboundLocalError
           /\ calls[k].returned => calls[k].value.node[n] = BaseOnly("other")

\* the sign that decides an edge's style: 'interaction' when the edge has it,
\* else 'sign'
DecidingSign(attrs) ==
  IF "interaction" \in DOMAIN attrs THEN attrs["interaction"] ELSE attrs["sign"]

\* the edge style the spec names for a sign
ClaimedEdgeStyle(sign) ==
  IF sign = 1 THEN SignStyle.edges.positive
  ELSE IF sign = -1 THEN SignStyle.edges.negative
  ELSE SignStyle.edges.neutral

HasStyle(attrs, style) ==
  \A key \in DOMAIN style : key \in DOMAIN attrs /\ attrs[key] = style[key]

\* C6: after a sign_consistent call that returns, every edge carries the style
\* of its sign (1 positive, -1 negative, anything else neutral) in place of
\* the neutral style of the default pass, and in the caller's graph the
\* 'interaction' key is gone and 'sign' holds its value.
C6_EdgeSignStyle ==
  \A k \in SignConsistentReturned :
    \A e \in DOMAIN original.adj :
      /\ HasStyle(calls[k].value.edge[e], ClaimedEdgeStyle(DecidingSign(original.adj[e])))
      /\ "interaction" \notin DOMAIN network.adj[e]
      /\ network.adj[e]["sign"] = DecidingSign(original.adj[e])

C6_Witness ==
  /\ SignConsistentReturned # {}
  /\ \E e, f \in DOMAIN original.adj :
       /\ original.adj[e] = [interaction |-> -1]
       /\ original.adj[f] = [sign |-> 0]
       /\ \A k \in SignConsistentReturned :
            /\ calls[k].value.edge[e] = SignStyle.edges.negative
            /\ calls[k].value.edge[f] = SignStyle.edges.neutral

Unsigned(attrs) == "interaction" \notin DOMAIN attrs /\ "sign" \notin DOMAIN attrs

\* C7 as stated: a sign_consistent call on a graph with an edge that has
\* neither 'interaction' nor 'sign' raises the missing-attribute error and
\* returns nothing.
C7_Original ==
  \A k \in SignConsistentCalls :
    (\E e \in DOMAIN original.adj : Unsigned(original.adj[e]))
      => calls[k].raised = MissingAttributeError /\ ~calls[k].returned

\* C8 as stated: no operation changes the graph the caller passed in.
C8_Original == network = original

\* C10: two sign_consistent calls on the same graph, whose edges each carry
\* 'interaction' or 'sign', end the same way and give every edge the same
\* style; the 'interaction' value decides when an edge carries both keys.
C10_Repeatable ==
  (\A e \in DOMAIN original.adj : ~Unsigned(original.adj[e]))
    => \A i, j \in SignConsistentCalls :
         i < j =>
           /\ calls[i].raised = calls[j].raised
           /\ calls[i].value.edge = calls[j].value.edge
           /\ \A k \in {i, j} : \A e \in DOMAIN calls[k].value.edge :
                "interaction" \in DOMAIN original.adj[e]
                  => HasStyle(calls[k].value.edge[e],
                              ClaimedEdgeStyle(original.adj[e]["interaction"]))

C10_Witness ==
  /\ Cardinality(SignConsistentReturned) >= 2
  /\ \E e \in DOMAIN original.adj :
       /\ original.adj[e] = [interaction |-> -1, sign |-> 1]
       /\ \A k \in SignConsistentReturned :
            calls[k].value.edge[e] = SignStyle.edges.negative

----------------------------------------------------------------------------
(* Properties of the colorizer                                             *)

\* the color the spec gives an edge: the table's entry for the color-by
\* value when there is one, else the table's 'default'
ClaimedColor(attrs) ==
  LET table == get_styles.default.edges
  IN IF color_by \in DOMAIN attrs /\ attrs[color_by] \in DOMAIN table
       THEN table[attrs[color_by]]
       ELSE table["default"]

\* C9 as stated: color_edges never raises and leaves on every edge the mapped
\* color, or the 'default' color when the color-by attribute is absent or
\* has no entry in the table.
C9_Original ==
  colored.color_edges # "not called"
    => /\ colored.color_edges = "none"
       /\ \A e \in DOMAIN self_network.adj :
            /\ "color" \in DOMAIN self_network.adj[e]
            /\ self_network.adj[e]["color"] = ClaimedColor(original.adj[e])

====
